---- MODULE Spec2Model ----
(***************************************************************************)
(* Model of the ECS structured logger of Blich-Studio/shared.              *)
(*                                                                         *)
(* The repository holds the logger in several variants.  The console       *)
(* variant (src/unnamed/part_005) filters, merges and formats in its own   *)
(* code and is modelled in full.  The variants that delegate to the pino   *)
(* library (src/src/utils/logger.ts, src/unnamed/part_004) are modelled up *)
(* to the library boundary: what they keep in their own fields and which   *)
(* call they forward to the library.                                       *)
(*                                                                         *)
(* JavaScript values are tagged records, so that values of different       *)
(* JavaScript types can sit in one mapping: the tag is field t.            *)
(***************************************************************************)
EXTENDS Integers, Sequences, FiniteSets, TLC

VARIABLES loggers, now, nextUuid, last, responses, timers

vars == <<loggers, now, nextUuid, last, responses, timers>>

(***************************************************************************)
(* Bounds of the model.                                                    *)
(***************************************************************************)
MaxLoggers == 3
MaxClock == 1
\* the 'finish' signals the transport delivers in one behaviour
MaxFinish == 2
\* the timers started with time()
MaxTimers == 1
\* the characters that follow the 22 digits of a candidate identifier
MaxTail == 3
\* the length of the tags string of a filter query
MaxFilterLen == 3
\* the items of a tags list of a filter query, and the length of each
MaxTagItems == 2
MaxItemLen == 2

(***************************************************************************)
(* JavaScript values.                                                      *)
(***************************************************************************)
Undef == [t |-> "undefined"]
Str(s) == [t |-> "string", s |-> s]
Num(n) == [t |-> "number", n |-> n]
Bool(b) == [t |-> "boolean", b |-> b]
Arr(a) == [t |-> "array", a |-> a]
Obj(o) == [t |-> "object", o |-> o]
\* an object whose own keys are kept in insertion order: p is <<key, value>> pairs
Entries(p) == [t |-> "object", p |-> p]
\* an Error instance: constructor name, name, message, code and stack
ErrorValue(ctor, name, message, code, stack) ==
  [t |-> "error",
   e |-> [ctor |-> ctor, name |-> name, message |-> message, code |-> code, stack |-> stack]]

EmptyObj == [k \in {} |-> Undef]

IsObj(v) == v.t = "object" /\ "o" \in DOMAIN v

\* property read o.k of a mapping: undefined when the key is absent
Get(o, k) == IF k \in DOMAIN o THEN o[k] ELSE Undef

\* property read v.k (or v?.k) of a JavaScript value that is an object
Prop(v, k) == IF IsObj(v) THEN Get(v.o, k) ELSE Undef

\* object spread { ...a, ...b } of two mappings
Spread(a, b) ==
  [k \in DOMAIN a \cup DOMAIN b |-> IF k \in DOMAIN b THEN b[k] ELSE a[k]]

\* ...v inside an object literal: nothing for undefined, the own keys otherwise
SpreadOf(v) == IF IsObj(v) THEN v.o ELSE EmptyObj

\* truthiness, as tested by if (v), v ? a : b and v || w
Truthy(v) ==
  CASE v.t = "undefined" -> FALSE
    [] v.t = "string" -> v.s # ""
    [] v.t = "number" -> v.n # 0
    [] v.t = "boolean" -> v.b
    [] OTHER -> TRUE

\* a || b
OrElse(a, b) == IF Truthy(a) THEN a ELSE b

RECURSIVE Join(_, _)
Join(parts, sep) ==
  IF Len(parts) = 0 THEN ""
  ELSE IF Len(parts) = 1 THEN Head(parts)
  ELSE Head(parts) \o sep \o Join(Tail(parts), sep)

\* String(v) and template-literal interpolation
RECURSIVE JSString(_)
JSString(v) ==
  CASE v.t = "undefined" -> "undefined"
    [] v.t = "string" -> v.s
    [] v.t = "number" -> ToString(v.n)
    [] v.t = "boolean" -> IF v.b THEN "true" ELSE "false"
    [] v.t = "array" ->
         Join([i \in 1..Len(v.a) |->
                 IF v.a[i].t = "undefined" THEN "" ELSE JSString(v.a[i])], ",")
    [] v.t = "error" ->
         IF v.e.message = "" THEN v.e.name ELSE v.e.name \o ": " \o v.e.message
    [] OTHER -> "[object Object]"

\* Array.prototype.join(sep)
ArrayJoin(v, sep) ==
  Join([i \in 1..Len(v.a) |->
          IF v.a[i].t = "undefined" THEN "" ELSE JSString(v.a[i])], sep)

\* what JSON.stringify writes, read back: keys whose value is undefined are
\* left out at every depth
RECURSIVE Json(_)
Json(v) ==
  IF IsObj(v)
  THEN Obj([k \in {k \in DOMAIN v.o : v.o[k].t # "undefined"} |-> Json(v.o[k])])
  ELSE v

(***************************************************************************)
(* Ambient process values read at construction.                            *)
(***************************************************************************)
EnvHOSTNAME == Undef
ProcessPid == Num(4242)

(***************************************************************************)
(* Configuration and level order.                                          *)
(***************************************************************************)
LogLevel == <<"trace", "debug", "info", "warn", "error", "fatal">>

Levels == {LogLevel[i] : i \in 1..Len(LogLevel)}

LOG_LEVEL_PRIORITY ==
  [trace |-> 0, debug |-> 1, info |-> 2, warn |-> 3, error |-> 4, fatal |-> 5]

defaultConfig ==
  [serviceName |-> Str("unknown-service"),
   serviceVersion |-> Str("1.0.0"),
   environment |-> Str("development"),
   level |-> Str("info"),
   enableConsole |-> Bool(TRUE),
   enableJSON |-> Bool(TRUE),
   includeStackTrace |-> Bool(TRUE)]

\* initializeContext(): the context of a freshly constructed console logger
initializeContext(config) ==
  [service |-> Obj([name |-> config.serviceName,
                    version |-> config.serviceVersion,
                    environment |-> config.environment]),
   host |-> Obj([hostname |-> OrElse(EnvHOSTNAME, Str("unknown-host"))]),
   process |-> Obj([pid |-> ProcessPid])]

\* new ECSLogger(config) of the console variant
ECSLogger(config) ==
  LET merged == Spread(defaultConfig, config)
  IN [impl |-> "console", config |-> merged, context |-> initializeContext(merged)]

\* the options handed to pino(...) by the constructor of the pino variant
pinoOptions(config) ==
  [level |-> config.level,
   base |-> Obj([service |-> Obj([name |-> config.serviceName,
                                  version |-> config.serviceVersion,
                                  environment |-> config.environment]),
                 host |-> Obj([hostname |-> EnvHOSTNAME]),
                 process |-> Obj([pid |-> ProcessPid])]),
   pretty |-> ~Truthy(config.enableJSON)]

\* new ECSLogger(config) of the pino variant: the private pino handle is the
\* options it was built with and the chain of bindings given to child()
PinoECSLogger(config) ==
  LET merged == Spread(defaultConfig, config)
  IN [impl |-> "pino", config |-> merged,
      context |-> [options |-> pinoOptions(merged), chain |-> <<>>]]

\* process.env.NODE_ENV as the module is loaded
EnvNODE_ENV == Undef

\* a ?? b
Nullish(a, b) == IF a.t = "undefined" THEN b ELSE a

inferredEnvironment == Nullish(EnvNODE_ENV, Str("development"))

\* defaultConfig of the variant that infers the environment (part_004)
defaultConfigInferred ==
  [serviceName |-> Str("unknown-service"),
   serviceVersion |-> Str("1.0.0"),
   environment |-> inferredEnvironment,
   level |-> Str("info"),
   enableConsole |-> Bool(TRUE),
   enableJSON |-> Bool(inferredEnvironment # Str("development")),
   includeStackTrace |-> Bool(TRUE)]

\* sanitizeConfig(config): the entries whose value is not undefined
sanitizeConfig(config) ==
  [k \in {k \in DOMAIN config : config[k] # Undef} |-> config[k]]

\* the options handed to pino(...) by the constructor of part_004
pinoOptionsInferred(config) ==
  [pinoOptions(config) EXCEPT
     !.pretty = config.environment = Str("development") /\ ~Truthy(config.enableJSON)]

\* new ECSLogger(config) of the pino variant of part_004
SanitizingECSLogger(config) ==
  LET merged == Spread(defaultConfigInferred, sanitizeConfig(config))
  IN [impl |-> "pino2", config |-> merged,
      context |-> [options |-> pinoOptionsInferred(merged), chain |-> <<>>]]

\* new ECSLogger(config) of the variant impl
New(impl, config) ==
  CASE impl = "console" -> ECSLogger(config)
    [] impl = "pino" -> PinoECSLogger(config)
    [] OTHER -> SanitizingECSLogger(config)

\* child(context) of the console variant
\* child() that constructs the new logger from the service name alone
childDefaultConfig(this, context) ==
  [ECSLogger([serviceName |-> this.config.serviceName])
     EXCEPT !.context = Spread(this.context, context)]

child(this, context) ==
  [ECSLogger(this.config) EXCEPT !.context = Spread(this.context, context)]

\* child(context) of the pino variant: this.logger.child(context)
pinoChild(this, context) ==
  [New(this.impl, this.config) EXCEPT
     !.context = [options |-> this.context.options,
                  chain |-> Append(this.context.chain, Obj(context))]]

(***************************************************************************)
(* Header sanitization.                                                    *)
(***************************************************************************)
sensitiveHeaders == {"authorization", "cookie", "x-api-key", "x-auth-token"}

REDACTED == Str("[REDACTED]")

\* String.prototype.toLowerCase on the header names of the model
toLowerCase(s) ==
  CASE s = "Authorization" -> "authorization"
    [] s = "AUTHORIZATION" -> "authorization"
    [] s = "Cookie" -> "cookie"
    [] s = "X-API-Key" -> "x-api-key"
    [] s = "X-Auth-Token" -> "x-auth-token"
    [] s = "Accept" -> "accept"
    [] s = "Set-Cookie" -> "set-cookie"
    [] OTHER -> s

\* sanitizeHeaders comparing the header name as written
sanitizeHeadersCaseSensitive(headers) ==
  [key \in DOMAIN headers |->
     IF key \in sensitiveHeaders
     THEN REDACTED
     ELSE IF headers[key].t = "array"
          THEN Str(ArrayJoin(headers[key], ", "))
          ELSE Str(JSString(headers[key]))]

sanitizeHeaders(headers) ==
  [key \in DOMAIN headers |->
     IF toLowerCase(key) \in sensitiveHeaders
     THEN REDACTED
     ELSE IF headers[key].t = "array"
          THEN Str(ArrayJoin(headers[key], ", "))
          ELSE Str(JSString(headers[key]))]

(***************************************************************************)
(* Request context.                                                        *)
(***************************************************************************)
\* crypto.randomUUID(): the n-th identifier drawn in this process
randomUUID(n) == Str("uuid-" \o ToString(n))

\* req.get(header): the accessor of the request, given by its table
ReqGet(req, header) ==
  LET get == Get(req, "get")
  IN IF get.t = "function" /\ header \in DOMAIN get.f THEN get.f[header] ELSE Undef

\* one value of a query mapping as URLSearchParams serializes it: a list is
\* stringified with commas, which are percent-encoded
ParamValue(v) == IF v.t = "array" THEN ArrayJoin(v, "%2C") ELSE JSString(v)

\* new URLSearchParams(query).toString()
URLSearchParamsToString(query) ==
  Join([i \in 1..Len(query.p) |-> query.p[i][1] \o "=" \o ParamValue(query.p[i][2])], "&")

\* the user sub-record of the overlay
requestUser(req) ==
  IF Truthy(Get(req, "user"))
  THEN Obj([id |-> Prop(Get(req, "user"), "id"),
            name |-> Prop(Get(req, "user"), "name"),
            email |-> Prop(Get(req, "user"), "email")])
  ELSE Undef

\* the overlay built by setRequestContext of the console variant; uuid is the
\* value randomUUID() returns if it is called
requestContext(req, uuid) ==
  [http |-> Obj([request |-> Obj([method |-> Get(req, "method"),
                                   url |-> Get(req, "url"),
                                   headers |-> Obj(sanitizeHeaders(Get(req, "headers").o))])]),
   url |-> Obj([original |-> OrElse(Get(req, "originalUrl"), Get(req, "url")),
                path |-> Get(req, "path"),
                query |-> IF Truthy(Get(req, "query"))
                          THEN Str(URLSearchParamsToString(Get(req, "query")))
                          ELSE Undef]),
   user |-> requestUser(req),
   labels |-> Obj([requestId |-> OrElse(Get(req, "id"), uuid),
                   userAgent |-> ReqGet(req, "User-Agent"),
                   ip |-> OrElse(Get(req, "ip"),
                                 Prop(Get(req, "connection"), "remoteAddress"))])]

\* the overlay built by setRequestContext of the pino variant (logger.ts)
pinoRequestContext(req, uuid) ==
  [http |-> Obj([request |-> Obj([method |-> Get(req, "method"),
                                   url |-> Get(req, "url"),
                                   headers |-> Obj(sanitizeHeaders(Get(req, "headers").o))])]),
   url |-> Obj([original |-> Nullish(Get(req, "originalUrl"), Get(req, "url")),
                path |-> Get(req, "path"),
                query |-> IF Truthy(Get(req, "query"))
                          THEN Str(URLSearchParamsToString(Get(req, "query")))
                          ELSE Undef]),
   user |-> requestUser(req),
   labels |-> Obj([requestId |-> Nullish(Get(req, "id"), uuid),
                   userAgent |-> ReqGet(req, "User-Agent"),
                   ip |-> Nullish(Get(req, "ip"),
                                  Prop(Get(req, "connection"), "remoteAddress"))])]

\* the key=value pairs serializeQueryParams appends, in order: one per item
\* of a list value, one for a string value, none for any other value
RECURSIVE appendedParams(_)
appendedParams(pairs) ==
  IF Len(pairs) = 0 THEN <<>>
  ELSE LET key == Head(pairs)[1]
           value == Head(pairs)[2]
           here == CASE value.t = "array" ->
                          [i \in 1..Len(value.a) |-> key \o "=" \o JSString(value.a[i])]
                     [] value.t = "string" -> <<key \o "=" \o value.s>>
                     [] OTHER -> <<>>
       IN here \o appendedParams(Tail(pairs))

\* serializeQueryParams(query) of part_004
serializeQueryParams(query) ==
  IF ~Truthy(query)
  THEN Undef
  ELSE LET serialized == Join(appendedParams(query.p), "&")
       IN IF serialized # "" THEN Str(serialized) ELSE Undef

\* the overlay built by setRequestContext of the pino variant of part_004
requestContextSerialized(req, uuid) ==
  [pinoRequestContext(req, uuid) EXCEPT
     !.url = Obj([original |-> Nullish(Get(req, "originalUrl"), Get(req, "url")),
                  path |-> Get(req, "path"),
                  query |-> serializeQueryParams(Get(req, "query"))])]

\* the overlay setRequestContext of the variant impl builds
requestContextOf(impl, req, uuid) ==
  CASE impl = "console" -> requestContext(req, uuid)
    [] impl = "pino" -> pinoRequestContext(req, uuid)
    [] OTHER -> requestContextSerialized(req, uuid)

(***************************************************************************)
(* Filtering, entry construction and console output (console variant).     *)
(***************************************************************************)
\* LOG_LEVEL_PRIORITY[level]: undefined for a key that is not a level
priorityOf(level) ==
  IF level.t = "string" /\ level.s \in DOMAIN LOG_LEVEL_PRIORITY
  THEN Num(LOG_LEVEL_PRIORITY[level.s])
  ELSE Undef

\* a >= b on numbers; a comparison with undefined is false
GreaterEq(a, b) == a.t = "number" /\ b.t = "number" /\ a.n >= b.n

\* shouldLog with a strict comparison
shouldLogStrict(config, level) ==
  GreaterEq(priorityOf(Str(level)), priorityOf(config.level))
  /\ priorityOf(Str(level)) # priorityOf(config.level)

shouldLog(config, level) == GreaterEq(priorityOf(Str(level)), priorityOf(config.level))

\* Date.prototype.toISOString() of the instant ms milliseconds after the epoch
toISOString(ms) == "1970-01-01T00:00:00.00" \o ToString(ms) \o "Z"

createLogEntry(this, level, message, data, clock) ==
  Spread(Spread([k \in {"@timestamp", "log", "message"} |->
                   CASE k = "@timestamp" -> Str(toISOString(clock))
                     [] k = "log" -> Obj([level |-> Str(level),
                                          logger |-> this.config.serviceName])
                     [] OTHER -> Str(message)],
                this.context),
         SpreadOf(data))

levelEmoji ==
  [trace |-> "(magnifier)", debug |-> "(bug)", info |-> "(information)",
   warn |-> "(warning)", error |-> "(cross)", fatal |-> "(skull)"]

\* String.prototype.toUpperCase on the level names
toUpperCase(s) ==
  CASE s = "trace" -> "TRACE"
    [] s = "debug" -> "DEBUG"
    [] s = "info" -> "INFO"
    [] s = "warn" -> "WARN"
    [] s = "error" -> "ERROR"
    [] s = "fatal" -> "FATAL"
    [] OTHER -> s

JsonLine(entry, indent) ==
  [fmt |-> "json", text |-> "", indent |-> indent, body |-> Json(Obj(entry))]

TextLine(entry) ==
  LET lvl == Prop(Get(entry, "log"), "level")
      emoji == IF lvl.t = "string" /\ lvl.s \in DOMAIN levelEmoji
               THEN levelEmoji[lvl.s] ELSE "(memo)"
      service == OrElse(Prop(Get(entry, "service"), "name"), Str("unknown"))
  IN [fmt |-> "text",
      text |-> emoji \o " [" \o JSString(Get(entry, "@timestamp")) \o "] "
               \o JSString(service) \o " " \o toUpperCase(lvl.s) \o ": "
               \o JSString(Get(entry, "message")),
      indent |-> 0, body |-> Undef]

ContextLine(entry) ==
  [fmt |-> "context", text |-> "  Context:", indent |-> 2, body |-> Json(Obj(entry))]

\* outputToConsole(entry): the console.log calls it makes, and whether it
\* throws (reading entry.log.level of an entry whose log field was replaced)
outputToConsole(config, entry) ==
  IF Truthy(config.enableJSON)
  THEN [threw |-> FALSE,
        lines |-> <<JsonLine(entry, IF config.environment = Str("development") THEN 2 ELSE 0)>>]
  ELSE IF Prop(Get(entry, "log"), "level").t # "string"
       THEN [threw |-> TRUE, lines |-> <<>>]
       ELSE IF config.environment = Str("development") /\ Cardinality(DOMAIN entry) > 3
            THEN [threw |-> FALSE, lines |-> <<TextLine(entry), ContextLine(entry)>>]
            ELSE [threw |-> FALSE, lines |-> <<TextLine(entry)>>]

\* log() that writes whether or not enableConsole is set
logAlwaysWriting(this, level, message, data, clock) ==
  IF ~shouldLog(this.config, level)
  THEN [passed |-> FALSE, entry |-> Undef, lines |-> <<>>, threw |-> FALSE]
  ELSE LET entry == createLogEntry(this, level, message, data, clock)
           out == outputToConsole(this.config, entry)
       IN [passed |-> TRUE, entry |-> Obj(entry), lines |-> out.lines, threw |-> out.threw]

\* log(level, message, data): what one call does, as a record
\*   passed: the level filter let the call through
\*   entry:  the entry built (undefined if none was built)
\*   lines:  the console.log calls made, in order
\*   threw:  the call ended by throwing
log(this, level, message, data, clock) ==
  IF ~shouldLog(this.config, level)
  THEN [passed |-> FALSE, entry |-> Undef, lines |-> <<>>, threw |-> FALSE]
  ELSE LET entry == createLogEntry(this, level, message, data, clock)
           out == IF Truthy(this.config.enableConsole)
                  THEN outputToConsole(this.config, entry)
                  ELSE [threw |-> FALSE, lines |-> <<>>]
       IN [passed |-> TRUE, entry |-> Obj(entry), lines |-> out.lines, threw |-> out.threw]

(***************************************************************************)
(* The data schemas (zod).  A string a schema inspects character by        *)
(* character is the sequence of its characters.                            *)
(***************************************************************************)
Chars(cs) == [t |-> "string", cs |-> cs]

IsChars(v) == v.t = "string" /\ "cs" \in DOMAIN v

\* the string of n characters c
Repeat(c, n) == [i \in 1..n |-> c]

\* the outcome of safeParse: success with the parsed value, or the issues
Ok(value) == [ok |-> TRUE, value |-> value, issues |-> <<>>]

Issue(code, message) == [path |-> <<>>, code |-> code, message |-> message]

Fail(issues) == [ok |-> FALSE, value |-> Undef, issues |-> issues]

\* no upper bound on a string's length
NoMax == -1

\* z.string().min(min, minMessage).max(max, maxMessage); a message of "" is
\* the library's default
zString(val, min, minMessage, max, maxMessage) ==
  IF ~IsChars(val) THEN Fail(<<Issue("invalid_type", "")>>)
  ELSE IF Len(val.cs) < min THEN Fail(<<Issue("too_small", minMessage)>>)
  ELSE IF max # NoMax /\ Len(val.cs) > max THEN Fail(<<Issue("too_big", maxMessage)>>)
  ELSE Ok(val)

\* z.number()
zNumber(val) == IF val.t = "number" THEN Ok(val) ELSE Fail(<<Issue("invalid_type", "")>>)

\* z.enum(options)
zEnum(val, options) ==
  IF IsChars(val) /\ val.cs \in options THEN Ok(val)
  ELSE Fail(<<Issue(IF IsChars(val) THEN "invalid_enum_value" ELSE "invalid_type", "")>>)

\* the issues of a part, with the part's key in front of their paths
Under(key, issues) ==
  [i \in 1..Len(issues) |-> [issues[i] EXCEPT !.path = <<key>> \o @]]

\* the issues of the parts of an object or array, in order; a part is
\* [key |-> k, out |-> outcome]
RECURSIVE IssuesOf(_)
IssuesOf(parts) ==
  IF parts = <<>> THEN <<>>
  ELSE Under(Head(parts).key, Head(parts).out.issues) \o IssuesOf(Tail(parts))

\* z.object({...}) once every field has been parsed: the known keys whose
\* parsed value is not undefined, or all the issues
zObject(val, parts) ==
  IF ~IsObj(val) THEN Fail(<<Issue("invalid_type", "")>>)
  ELSE IF IssuesOf(parts) # <<>> THEN Fail(IssuesOf(parts))
  ELSE LET kept == {i \in 1..Len(parts) : parts[i].out.value # Undef}
       IN Ok(Obj([k \in {parts[i].key : i \in kept} |->
                    LET i == CHOOSE j \in kept : parts[j].key = k IN parts[i].out.value]))

\* the field key of the object val, parsed by a schema with outcome out
Field(key, out) == [key |-> key, out |-> out]

\* z.array(schema) once every item has been parsed
zArray(val, outs) ==
  IF val.t # "array" THEN Fail(<<Issue("invalid_type", "")>>)
  ELSE LET parts == [i \in 1..Len(outs) |-> Field(ToString(i - 1), outs[i])]
       IN IF IssuesOf(parts) # <<>> THEN Fail(IssuesOf(parts))
          ELSE Ok(Arr([i \in 1..Len(outs) |-> outs[i].value]))

\* the items of an array value, none for another value
Items(val) == IF val.t = "array" THEN val.a ELSE <<>>

HexDigits == {"0", "1", "2", "3", "4", "5", "6", "7", "8", "9", "a", "b", "c", "d", "e", "f"}

UpperHexDigits == {"A", "B", "C", "D", "E", "F"}

\* /^[a-f\d]{24}$/i.test(val): the i flag lets [a-f] match A-F as well
ObjectIdPattern(cs) ==
  Len(cs) = 24 /\ \A i \in 1..Len(cs) : cs[i] \in HexDigits \cup UpperHexDigits

ObjectIdSchema(val) ==
  IF ~IsChars(val) THEN Fail(<<Issue("invalid_type", "")>>)
  ELSE IF ObjectIdPattern(val.cs) THEN Ok(val)
  ELSE Fail(<<Issue("custom", "Invalid MongoDB ObjectId")>>)

TagSchema(val) ==
  zObject(val,
    <<Field("_id", ObjectIdSchema(Prop(val, "_id"))),
      Field("name", zString(Prop(val, "name"), 1, "", 30, "")),
      Field("description", IF Prop(val, "description") = Undef THEN Ok(Undef)
                           ELSE zString(Prop(val, "description"), 0, "", 200, "")),
      Field("createdAt", zNumber(Prop(val, "createdAt"))),
      Field("updatedAt", zNumber(Prop(val, "updatedAt")))>>)

Statuses == {<<"d", "r", "a", "f", "t">>,
             <<"p", "u", "b", "l", "i", "s", "h", "e", "d">>,
             <<"a", "r", "c", "h", "i", "v", "e", "d">>}

\* z.array(TagSchema)
TagArray(val) == zArray(val, [i \in 1..Len(Items(val)) |-> TagSchema(Items(val)[i])])

ArticleSchema(val) ==
  zObject(val,
    <<Field("_id", ObjectIdSchema(Prop(val, "_id"))),
      Field("title", zString(Prop(val, "title"), 1, "", 50, "")),
      Field("slug", zString(Prop(val, "slug"), 1, "", 30, "")),
      Field("perex", zString(Prop(val, "perex"), 1, "", 200, "")),
      Field("content", zString(Prop(val, "content"), 1, "", NoMax, "")),
      Field("authorId", ObjectIdSchema(Prop(val, "authorId"))),
      Field("status", zEnum(Prop(val, "status"), Statuses)),
      Field("tags", TagArray(Prop(val, "tags"))),
      Field("createdAt", zNumber(Prop(val, "createdAt"))),
      Field("updatedAt", zNumber(Prop(val, "updatedAt")))>>)

CreateArticleSchema(val) ==
  zObject(val,
    <<Field("title", zString(Prop(val, "title"), 1, "Title is required",
                             200, "Title must be less than 200 characters")),
      Field("content", zString(Prop(val, "content"), 1, "Content is required", NoMax, "")),
      Field("authorId", ObjectIdSchema(Prop(val, "authorId"))),
      Field("slug", zString(Prop(val, "slug"), 1, "Slug is required",
                            30, "Slug must be less than 30 characters")),
      Field("perex", zString(Prop(val, "perex"), 1, "Perex is required",
                             200, "Perex must be less than 200 characters")),
      Field("status", IF Prop(val, "status") = Undef THEN Ok(Chars(<<"d", "r", "a", "f", "t">>))
                      ELSE zEnum(Prop(val, "status"), Statuses)),
      Field("tags", IF Prop(val, "tags") = Undef THEN Ok(Arr(<<>>))
                    ELSE TagArray(Prop(val, "tags")))>>)

\* String.prototype.split(sep) with a one-character separator
RECURSIVE split(_, _)
split(cs, sep) ==
  IF \E i \in 1..Len(cs) : cs[i] = sep
  THEN LET i == CHOOSE j \in 1..Len(cs) : cs[j] = sep /\ \A h \in 1..(j - 1) : cs[h] # sep
       IN <<SubSeq(cs, 1, i - 1)>> \o split(SubSeq(cs, i + 1, Len(cs)), sep)
  ELSE <<cs>>

WhiteSpace == {" ", "\t", "\n"}

\* String.prototype.trim()
RECURSIVE trim(_)
trim(cs) ==
  IF cs # <<>> /\ Head(cs) \in WhiteSpace THEN trim(Tail(cs))
  ELSE IF cs # <<>> /\ cs[Len(cs)] \in WhiteSpace THEN trim(SubSeq(cs, 1, Len(cs) - 1))
  ELSE cs

\* Array.prototype.filter(s => s.length > 0)
nonEmpty(parts) == SelectSeq(parts, LAMBDA s : Len(s) > 0)

\* the transform of the tags filter: val is undefined, a string or an array
tagsTransform(val) ==
  IF val = Undef \/ (IsChars(val) /\ val.cs = <<>>) THEN Undef
  ELSE IF val.t = "array" THEN val
  ELSE LET parts == split(val.cs, ",")
           kept == nonEmpty([i \in 1..Len(parts) |-> trim(parts[i])])
       IN Arr([i \in 1..Len(kept) |-> Chars(kept[i])])

\* z.union([z.string(), z.array(z.string())]).optional().transform(...)
tagsFilter(val) ==
  IF val = Undef \/ IsChars(val) THEN Ok(tagsTransform(val))
  ELSE IF val.t = "array" /\ \A i \in 1..Len(val.a) : IsChars(val.a[i])
       THEN Ok(tagsTransform(val))
       ELSE Fail(<<Issue("invalid_union", "")>>)

\* an optional field
Optional(val, out) == IF val = Undef THEN Ok(Undef) ELSE out

ArticleFiltersSchema(val) ==
  zObject(val,
    <<Field("status", Optional(Prop(val, "status"), zEnum(Prop(val, "status"), Statuses))),
      Field("authorId", Optional(Prop(val, "authorId"),
                                 zString(Prop(val, "authorId"), 0, "", NoMax, ""))),
      Field("tags", tagsFilter(Prop(val, "tags"))),
      Field("search", Optional(Prop(val, "search"),
                               zString(Prop(val, "search"), 0, "", NoMax, "")))>>)

(***************************************************************************)
(* error / fatal: the data they hand on.                                   *)
(***************************************************************************)
\* error.constructor?.name
constructorName(error) ==
  CASE error.t = "error" -> Str(error.e.ctor)
    [] error.t = "string" -> Str("String")
    [] error.t = "number" -> Str("Number")
    [] error.t = "boolean" -> Str("Boolean")
    [] error.t = "array" -> Str("Array")
    [] error.t = "object" -> Str("Object")
    [] OTHER -> Undef

\* error.message, error.code, error.stack of an arbitrary value
errorProp(error, k) ==
  CASE error.t = "error" ->
         (CASE k = "message" -> Str(error.e.message)
            [] k = "code" -> error.e.code
            [] k = "stack" -> error.e.stack
            [] OTHER -> Undef)
    [] OTHER -> Prop(error, k)

\* failureData with the caller's event spread after the outcome
failureDataEventLast(data) ==
  Spread(SpreadOf(data),
         [event |-> Obj(Spread([outcome |-> Str("failure")],
                               SpreadOf(Prop(data, "event"))))])

\* { ...data, event: { ...data?.event, outcome: 'failure' } }
failureData(data) ==
  Spread(SpreadOf(data),
         [event |-> Obj(Spread(SpreadOf(Prop(data, "event")),
                               [outcome |-> Str("failure")]))])

\* errorRecord that attaches the stack whatever includeStackTrace says
errorRecordAlwaysStack(config, error) ==
  Obj([type |-> OrElse(constructorName(error), Str("Error")),
       message |-> errorProp(error, "message"),
       code |-> errorProp(error, "code"),
       stack_trace |-> errorProp(error, "stack")])

\* the error sub-record of the console variant
errorRecord(config, error) ==
  Obj([type |-> OrElse(constructorName(error), Str("Error")),
       message |-> errorProp(error, "message"),
       code |-> errorProp(error, "code"),
       stack_trace |-> IF Truthy(config.includeStackTrace)
                       THEN errorProp(error, "stack") ELSE Undef])

\* errorData as built by error() and fatal() of the console variant
errorData(this, error, data) ==
  IF Truthy(error)
  THEN Spread(failureData(data), [error |-> errorRecord(this.config, error)])
  ELSE failureData(data)

\* normalizeError(error) of the pino variant
normalizeError(error) ==
  IF error.t = "error"
  THEN error
  ELSE ErrorValue("Error", "Error", JSString(error), Undef,
                  Str("Error: " \o JSString(error) \o " <stack>"))

\* the error sub-record of the pino variant
pinoErrorRecord(config, error) ==
  LET err == normalizeError(error)
  IN Obj([type |-> Str(err.e.name),
          message |-> Str(err.e.message),
          code |-> err.e.code,
          stack_trace |-> IF Truthy(config.includeStackTrace) THEN err.e.stack ELSE Undef])

\* errorData as built by error() and fatal() of the pino variant
pinoErrorData(this, error, data) ==
  IF Truthy(error)
  THEN Spread(failureData(data), [error |-> pinoErrorRecord(this.config, error)])
  ELSE failureData(data)

(***************************************************************************)
(* Inputs of the calls.                                                    *)
(***************************************************************************)
ServiceName == "svc"

\* the choices of the optional configuration fields a caller sets besides
\* serviceName and level: each field is left out or set away from its default
FlagInputs ==
  {Spread(Spread(a, b), Spread(c, d)) :
     a \in {EmptyObj, [enableConsole |-> Bool(FALSE)]},
     b \in {EmptyObj, [enableJSON |-> Bool(FALSE)]},
     c \in {EmptyObj, [environment |-> Str("production")]},
     d \in {EmptyObj, [includeStackTrace |-> Bool(FALSE)]}}

\* every level with every choice of the optional fields
AllConfigInputs ==
  {Spread([serviceName |-> Str(ServiceName), level |-> Str(l)], f) :
     l \in Levels, f \in FlagInputs}

\* the configurations of the roots whose descendants are explored
ConfigInputs ==
  {[serviceName |-> Str(ServiceName), level |-> Str("trace")],
   [serviceName |-> Str(ServiceName), level |-> Str("trace"),
    includeStackTrace |-> Bool(FALSE)],
   [serviceName |-> Str(ServiceName), level |-> Str("warn")]}

PinoConfigInputs ==
  {Spread([serviceName |-> Str(ServiceName)], f) :
     f \in {EmptyObj, [includeStackTrace |-> Bool(FALSE)]}}

\* configurations that leave an optional field out, give it as undefined, or
\* give it a value; "verbose" is not a level
MergeConfigInputs ==
  {Spread(Spread([serviceName |-> Str(ServiceName)], Spread(a, b)), Spread(c, Spread(d, e))) :
     a \in {EmptyObj, [level |-> Undef], [level |-> Str("debug")], [level |-> Str("verbose")]},
     b \in {EmptyObj, [enableConsole |-> Undef], [enableConsole |-> Bool(FALSE)]},
     c \in {EmptyObj, [includeStackTrace |-> Undef], [includeStackTrace |-> Bool(FALSE)]},
     d \in {EmptyObj, [environment |-> Undef], [environment |-> Str("production")]},
     e \in {EmptyObj, [serviceVersion |-> Undef]}}

\* process.env.LOG_LEVEL as the module is loaded: unset, a level, or some
\* other string
EnvLOG_LEVELInputs == {Undef, Str("debug"), Str("verbose")}

\* the configuration literal of the default logger instance of each variant
defaultLoggerConfig(impl, envLOG_LEVEL) ==
  IF impl = "console"
  THEN [serviceName |-> Str("blich-studio"),
        environment |-> OrElse(EnvNODE_ENV, Str("development")),
        level |-> OrElse(envLOG_LEVEL, Str("info"))]
  ELSE [serviceName |-> Str("blich-studio"),
        environment |-> EnvNODE_ENV,
        level |-> envLOG_LEVEL]

Impls == {"console", "pino", "pino2"}

RawHeaders == [Authorization |-> Str("secret"), Accept |-> Str("text/html")]

\* context overlays given to child()
OverlayDb ==
  [event |-> Obj([category |-> Str("database")]),
   labels |-> Obj([database |-> Str("mongodb")])]

OverlayRaw ==
  [labels |-> Obj([component |-> Str("auth")]),
   http |-> Obj([request |-> Obj([headers |-> Obj(RawHeaders)])]),
   service |-> Obj([name |-> Str("other")]),
   error |-> Obj([message |-> Str("from-context")])]

Overlays == {OverlayDb, OverlayRaw}

\* data arguments of the emission operations
DataResponse ==
  Obj([event |-> Obj([action |-> Str("response"), outcome |-> Str("success"),
                      duration |-> Num(5)]),
       labels |-> Obj([timerLabel |-> Str("t")]),
       http |-> Obj([response |-> Obj([status_code |-> Num(200)])])])

DataRaw ==
  Obj([event |-> Obj([kind |-> Str("event"), outcome |-> Str("unknown")]),
       http |-> Obj([request |-> Obj([headers |-> Obj(RawHeaders)])]),
       service |-> Obj([name |-> Str("other")]),
       error |-> Obj([message |-> Str("from-data")])])

Datas == {Undef, DataResponse, DataRaw}

\* error arguments of error() and fatal()
RangeErrorBad ==
  ErrorValue("RangeError", "RangeError", "bad", Str("E_RANGE"), Str("RangeError: bad <stack>"))

NamedError ==
  ErrorValue("Error", "TimeoutError", "late", Undef, Str("TimeoutError: late <stack>"))

ErrorInputs ==
  {Undef, RangeErrorBad, NamedError, Str("oops"), Str(""), Num(0), Bool(FALSE),
   Obj([reason |-> Str("r")])}

\* requests given to setRequestContext()
RequestA ==
  [method |-> Str("GET"), url |-> Str("/a?x=1"), path |-> Str("/a"),
   headers |-> Obj([authorization |-> Str("secret"),
                    Cookie |-> Arr(<<Str("a=1"), Str("b=2")>>),
                    accept |-> Arr(<<Str("text/html"), Str("application/json")>>),
                    host |-> Str("example.org")]),
   query |-> Entries(<< <<"x", Str("1")>> >>),
   user |-> Obj([id |-> Str("u1"), name |-> Str("Ann"), email |-> Str("ann@example.org"),
                 role |-> Str("admin")]),
   id |-> Str("req-1"),
   get |-> [t |-> "function", f |-> [k \in {"User-Agent"} |-> Str("curl")]],
   ip |-> Str("10.0.0.1")]

RequestB ==
  [method |-> Str("POST"), url |-> Str("/b"), path |-> Str("/b"),
   headers |-> Obj([k \in {"X-API-Key", "content-length", "X-Auth-Token"} |->
                      CASE k = "X-API-Key" -> Str("key")
                        [] k = "content-length" -> Num(12)
                        [] OTHER -> Arr(<<Str("t1"), Str("t2")>>)]),
   get |-> [t |-> "function", f |-> EmptyObj],
   connection |-> Obj([remoteAddress |-> Str("10.0.0.2")])]

Requests == {RequestA, RequestB}

Messages == {"m"}

\* candidate identifiers: 22 hex digits followed by up to MaxTail characters
\* that are lowercase hex, uppercase hex or not hex at all
IdAlphabet == {"a", "9", "F", "g"}

ObjectIdInputs ==
  {Chars(Repeat("a", 22) \o tail) : tail \in UNION {[1..n -> IdAlphabet] : n \in 0..MaxTail}}

ValidId == Chars(Repeat("a", 24))

TagInputs ==
  {Obj([_id |-> ValidId, name |-> Chars(Repeat("t", n)), createdAt |-> Num(1),
        updatedAt |-> Num(1)]) : n \in {0, 1}}

\* the fields a caller gives to create an article, with lengths on both
\* sides of every limit of the two schemas
CreateArticleInputs ==
  {Obj([title |-> Chars(Repeat("x", title)), slug |-> Chars(Repeat("x", slug)),
        perex |-> Chars(Repeat("x", perex)), content |-> Chars(Repeat("x", content)),
        authorId |-> authorId, status |-> status, tags |-> tags]) :
     title \in {0, 1, 50, 51, 200, 201}, slug \in {1, 30, 31}, perex \in {1, 200, 201},
     content \in {0, 1}, authorId \in {ValidId, Chars(Repeat("a", 23))},
     status \in {Undef, Chars(<<"d", "r", "a", "f", "t">>), Chars(<<"x">>)},
     tags \in {Undef, Arr(<<>>)} \cup {Arr(<<tag>>) : tag \in TagInputs}}

\* a created article completed with a valid _id, createdAt and updatedAt
Completed(value) ==
  Obj(Spread(value.o, [_id |-> ValidId, createdAt |-> Num(1), updatedAt |-> Num(1)]))

\* stored articles
ArticleInputs ==
  {Obj(Spread([title |-> Chars(Repeat("x", title)), slug |-> Chars(<<"s">>),
               perex |-> Chars(<<"p">>), content |-> Chars(<<"c">>), authorId |-> ValidId,
               status |-> Chars(<<"d", "r", "a", "f", "t">>), tags |-> Arr(<<>>)], rest)) :
     title \in {50, 51},
     rest \in {EmptyObj, [_id |-> ValidId, createdAt |-> Num(1), updatedAt |-> Num(1)]}}

\* the tags of a filter query: a string of up to MaxFilterLen characters, or
\* a list of up to MaxTagItems strings of up to MaxItemLen characters
FilterAlphabet == {"a", ",", " "}

FilterStrings(len) == UNION {[1..n -> FilterAlphabet] : n \in 0..len}

ArticleFiltersInputs ==
  {Obj([tags |-> tags]) :
     tags \in {Undef, Num(1)}
              \cup {Chars(cs) : cs \in FilterStrings(MaxFilterLen)}
              \cup {Arr([i \in DOMAIN items |-> Chars(items[i])]) :
                      items \in UNION {[1..n -> FilterStrings(MaxItemLen)] : n \in 0..MaxTagItems}}}

\* a data argument that itself has the keys of the core fields
DataCore ==
  Obj([k \in {"message", "log", "@timestamp"} |->
         CASE k = "message" -> Str("forged")
           [] k = "log" -> Obj([origin |-> Str("caller")])
           [] OTHER -> Str("yesterday")])

CoreDatas == {Undef, DataCore}

\* a context overlay that has the key of a core field
OverlayCore == [message |-> Str("from-context")]

\* requests that have or lack an originalUrl, a query mapping (none, empty,
\* one string value, one list value) and an authenticated user
RequestInputs ==
  {Spread(Spread([method |-> Str("GET"), url |-> Str("/a"), path |-> Str("/a"),
                  headers |-> Obj([accept |-> Str("text/html")]),
                  id |-> Str("req-1"),
                  get |-> [t |-> "function", f |-> EmptyObj]], o),
          Spread(q, u)) :
     o \in {EmptyObj, [originalUrl |-> Str("/api/a")]},
     q \in {EmptyObj,
            [query |-> Entries(<<>>)],
            [query |-> Entries(<< <<"x", Str("1")>>, <<"y", Str("2")>> >>)],
            [query |-> Entries(<< <<"tag", Arr(<<Str("a"), Str("b")>>)>> >>)]},
     u \in {EmptyObj,
            [user |-> Obj([id |-> Str("u1"), name |-> Str("Ann"),
                           email |-> Str("ann@example.org"), role |-> Str("admin")])]}}

(***************************************************************************)
(* State.                                                                  *)
(*   loggers   the logger objects created so far; loggers[i].parent is the *)
(*             index of the logger it was derived from, 0 for a root       *)
(*   now       the clock, in milliseconds                                  *)
(*   nextUuid  the number of identifiers randomUUID() has handed out       *)
(*   last      the call the caller has just made and not yet returned      *)
(*             from: its arguments and what it did                         *)
(*   responses the response objects handed to logRequest, each with its    *)
(*             status code and its 'finish' listeners                      *)
(*   timers    the stop functions time() has returned                     *)
(***************************************************************************)
NoCall ==
  [op |-> "none", impl |-> "", logger |-> 0, level |-> "", message |-> "",
   data |-> Undef, error |-> Undef, input |-> Undef, result |-> 0,
   passed |-> FALSE, entry |-> Undef, lines |-> <<>>, threw |-> FALSE,
   forwarded |-> Undef, res |-> 0, schema |-> "", parsed |-> Undef]

Init ==
  /\ loggers = <<>>
  /\ now = 0
  /\ nextUuid = 0
  /\ last = NoCall
  /\ responses = <<>>
  /\ timers = <<>>

\* the caller is between two calls
Idle == last.op = "none"

\* a logger object, with the logger it was derived from and the context
\* argument it was derived with
Cell(object, parent, given) ==
  [impl |-> object.impl, config |-> object.config, context |-> object.context,
   parent |-> parent, given |-> given]

\* createLogger(config): the behaviour follows one root logger and the
\* loggers derived from it
Create(impl, config) ==
  /\ Idle
  /\ loggers = <<>>
  /\ loggers' = <<Cell(New(impl, config), 0, EmptyObj)>>
  /\ last' = [NoCall EXCEPT !.op = "create", !.impl = impl, !.input = Obj(config), !.result = 1]
  /\ UNCHANGED <<now, nextUuid, responses, timers>>

\* the module is loaded: export const logger = createLogger({...})
LoadModule(impl, envLOG_LEVEL) ==
  /\ Idle
  /\ loggers = <<>>
  /\ loggers' = <<Cell(New(impl, defaultLoggerConfig(impl, envLOG_LEVEL)), 0, EmptyObj)>>
  /\ last' = [NoCall EXCEPT !.op = "default", !.impl = impl,
                            !.input = Obj(defaultLoggerConfig(impl, envLOG_LEVEL)),
                            !.result = 1]
  /\ UNCHANGED <<now, nextUuid, responses, timers>>

\* child() that also writes the merged context back into the receiver
ChildSharingContext(p, context) ==
  /\ Idle
  /\ Len(loggers) < MaxLoggers
  /\ LET this == loggers[p]
         made == IF this.impl = "console" THEN child(this, context) ELSE pinoChild(this, context)
     IN /\ loggers' = Append([loggers EXCEPT ![p].context = made.context], Cell(made, p, context))
        /\ last' = [NoCall EXCEPT !.op = "child", !.impl = this.impl, !.logger = p,
                                  !.input = Obj(context), !.result = Len(loggers) + 1]
  /\ UNCHANGED <<now, nextUuid, responses, timers>>

\* p.child(context)
Child(p, context) ==
  /\ Idle
  /\ Len(loggers) < MaxLoggers
  /\ LET this == loggers[p]
         made == IF this.impl = "console" THEN child(this, context) ELSE pinoChild(this, context)
     IN /\ loggers' = Append(loggers, Cell(made, p, context))
        /\ last' = [NoCall EXCEPT !.op = "child", !.impl = this.impl, !.logger = p,
                                  !.input = Obj(context), !.result = Len(loggers) + 1]
  /\ UNCHANGED <<now, nextUuid, responses, timers>>

\* p.setRequestContext(req)
SetRequestContext(p, req) ==
  /\ Idle
  /\ Len(loggers) < MaxLoggers
  /\ LET this == loggers[p]
         uuid == randomUUID(nextUuid)
         drawn == IF this.impl = "console"
                  THEN ~Truthy(Get(req, "id"))
                  ELSE Get(req, "id").t = "undefined"
         made == IF this.impl = "console"
                 THEN child(this, requestContextOf(this.impl, req, uuid))
                 ELSE pinoChild(this, requestContextOf(this.impl, req, uuid))
     IN /\ loggers' = Append(loggers, Cell(made, p, requestContextOf(this.impl, req, uuid)))
        /\ nextUuid' = IF drawn THEN nextUuid + 1 ELSE nextUuid
        /\ last' = [NoCall EXCEPT !.op = "setRequestContext", !.impl = this.impl, !.logger = p,
                                  !.input = Obj(req), !.result = Len(loggers) + 1]
  /\ UNCHANGED <<now, responses, timers>>

\* the record of one emission call of the logger object this, kept at index p
EmittedBy(this, p, op, level, message, error, data, handed) ==
     IF this.impl = "console"
     THEN LET r == log(this, level, message, handed, now)
          IN [NoCall EXCEPT !.op = op, !.impl = this.impl, !.logger = p, !.level = level,
                            !.message = message, !.data = data, !.error = error,
                            !.passed = r.passed, !.entry = r.entry, !.lines = r.lines,
                            !.threw = r.threw]
     ELSE [NoCall EXCEPT !.op = op, !.impl = this.impl, !.logger = p, !.level = level,
                         !.message = message, !.data = data, !.error = error,
                         !.forwarded = Nullish(handed, Obj(EmptyObj))]

\* the record of one emission call of logger p
Emitted(p, op, level, message, error, data, handed) ==
  EmittedBy(loggers[p], p, op, level, message, error, data, handed)

\* p.trace / p.debug / p.info / p.warn (message, data)
Trace(p, message, data) ==
  /\ Idle
  /\ last' = Emitted(p, "trace", "trace", message, Undef, data, data)
  /\ UNCHANGED <<loggers, now, nextUuid, responses, timers>>

Debug(p, message, data) ==
  /\ Idle
  /\ last' = Emitted(p, "debug", "debug", message, Undef, data, data)
  /\ UNCHANGED <<loggers, now, nextUuid, responses, timers>>

Info(p, message, data) ==
  /\ Idle
  /\ last' = Emitted(p, "info", "info", message, Undef, data, data)
  /\ UNCHANGED <<loggers, now, nextUuid, responses, timers>>

Warn(p, message, data) ==
  /\ Idle
  /\ last' = Emitted(p, "warn", "warn", message, Undef, data, data)
  /\ UNCHANGED <<loggers, now, nextUuid, responses, timers>>

\* the data error() and fatal() of logger p hand on
ErrorDataOf(p, error, data) ==
  IF loggers[p].impl = "console"
  THEN Obj(errorData(loggers[p], error, data))
  ELSE Obj(pinoErrorData(loggers[p], error, data))

\* p.error(message, error, data)
Error(p, message, error, data) ==
  /\ Idle
  /\ last' = Emitted(p, "error", "error", message, error, data, ErrorDataOf(p, error, data))
  /\ UNCHANGED <<loggers, now, nextUuid, responses, timers>>

\* p.fatal(message, error, data)
Fatal(p, message, error, data) ==
  /\ Idle
  /\ last' = Emitted(p, "fatal", "fatal", message, error, data, ErrorDataOf(p, error, data))
  /\ UNCHANGED <<loggers, now, nextUuid, responses, timers>>

(***************************************************************************)
(* logRequest.  A response object is                                       *)
(*   req         the request it answers                                    *)
(*   statusCode  res.statusCode                                            *)
(*   listeners   the 'finish' listeners registered with res.on, each the   *)
(*               closure of logRequest: its logger and its startTime       *)
(*   phase       "next" while the next() that logRequest called is         *)
(*               running, "returned" once logRequest has returned          *)
(*   finishes    how many times 'finish' was emitted on it                 *)
(*   written     the entries of this invocation handed to the sink, in     *)
(*               order                                                     *)
(***************************************************************************)
StatusCodes == {200, 400}

\* the data of the entry logged when the request arrives
requestReceivedData ==
  Obj([event |-> Obj([action |-> Str("request"), category |-> Str("web"),
                      type |-> Str("access")])])

\* completionLevel comparing with > instead of >=
completionLevelAbove(statusCode) ==
  IF GreaterEq(statusCode, Num(401)) THEN "warn" ELSE "info"

\* res.statusCode >= 400 ? LogLevel.WARN : LogLevel.INFO
completionLevel(statusCode) ==
  IF GreaterEq(statusCode, Num(400)) THEN "warn" ELSE "info"

\* the data of the entry logged by the 'finish' listener
completionData(statusCode, duration) ==
  Obj([event |-> Obj([action |-> Str("response"), category |-> Str("web"),
                      type |-> Str("access"),
                      outcome |-> IF GreaterEq(statusCode, Num(400))
                                  THEN Str("failure") ELSE Str("success"),
                      duration |-> Num(duration)]),
       http |-> Obj([response |-> Obj([status_code |-> statusCode])])])

\* the emission call of the record rec went to the sink: through the level
\* filter of the console variant, or to the pino handle
Handed(rec) == rec.impl # "console" \/ rec.passed

\* the listeners on a fresh response when logRequest never calls res.on
noListener(k, startTime) == <<>>

\* res.on('finish', ...) on a fresh response: the closure keeps the derived
\* logger k and the startTime
finishListener(k, startTime) == <<[logger |-> k, startTime |-> startTime]>>

RECURSIVE TotalFinishes(_)
TotalFinishes(rs) == IF Len(rs) = 0 THEN 0 ELSE Head(rs).finishes + TotalFinishes(Tail(rs))

\* p.logRequest(req, res, next), up to and including the call of next(): res
\* is a fresh response (status 200); control is then inside next()
LogRequest(p, req) ==
  /\ Idle
  /\ Len(loggers) < MaxLoggers
  /\ \A r \in 1..Len(responses) : responses[r].phase # "next"
  /\ LET this == loggers[p]
         startTime == now
         uuid == randomUUID(nextUuid)
         drawn == IF this.impl = "console"
                  THEN ~Truthy(Get(req, "id"))
                  ELSE Get(req, "id").t = "undefined"
         made == IF this.impl = "console"
                 THEN child(this, requestContextOf(this.impl, req, uuid))
                 ELSE pinoChild(this, requestContextOf(this.impl, req, uuid))
         k == Len(loggers) + 1
         rec == EmittedBy(Cell(made, p, EmptyObj), p, "logRequest", "info", "Request received",
                          Undef, requestReceivedData, requestReceivedData)
     IN /\ loggers' = Append(loggers, Cell(made, p, requestContextOf(this.impl, req, uuid)))
        /\ nextUuid' = IF drawn THEN nextUuid + 1 ELSE nextUuid
        /\ responses' = Append(responses,
                               [req |-> req, statusCode |-> Num(200),
                                listeners |-> finishListener(k, startTime),
                                phase |-> "next", finishes |-> 0,
                                written |-> IF Handed(rec) THEN <<"received">> ELSE <<>>])
        /\ last' = [rec EXCEPT !.input = Obj(req), !.result = k, !.res = Len(responses) + 1]
  /\ UNCHANGED <<now, timers>>

\* next() returns, and logRequest returns after it
NextReturns(r) ==
  /\ Idle
  /\ responses[r].phase = "next"
  /\ responses' = [responses EXCEPT ![r].phase = "returned"]
  /\ UNCHANGED <<loggers, now, nextUuid, last, timers>>

\* the handler sets res.statusCode, before the response is finished
SetStatus(r, code) ==
  /\ Idle
  /\ responses[r].finishes = 0
  /\ responses[r].statusCode # Num(code)
  /\ responses' = [responses EXCEPT ![r].statusCode = Num(code)]
  /\ UNCHANGED <<loggers, now, nextUuid, last, timers>>

\* the transport emits 'finish' on response r: its listeners run
Finish(r) ==
  /\ Idle
  /\ TotalFinishes(responses) < MaxFinish
  /\ LET res == responses[r]
     IN IF res.listeners = <<>>
        THEN /\ last' = [NoCall EXCEPT !.op = "finish", !.res = r]
             /\ responses' = [responses EXCEPT ![r].finishes = @ + 1]
        ELSE LET logger == Head(res.listeners).logger
                 duration == now - Head(res.listeners).startTime
                 level == completionLevel(res.statusCode)
                 data == completionData(res.statusCode, duration)
                 rec == EmittedBy(loggers[logger], logger, "finish", level,
                                  "Request completed", Undef, data, data)
             IN /\ last' = [rec EXCEPT !.res = r]
                /\ responses' = [responses EXCEPT
                                   ![r].finishes = @ + 1,
                                   ![r].written = IF Handed(rec) THEN Append(@, "completed") ELSE @]
  /\ UNCHANGED <<loggers, now, nextUuid, timers>>

(***************************************************************************)
(* time(label).  A stop function is the closure time() returned: the       *)
(* logger it was called on, the label and the startTime.  previous and     *)
(* latest are the durations its two most recent calls logged (-1: none).   *)
(***************************************************************************)
Labels == {"db"}

\* the data of the "Timer ended" entry without the label
timerEndDataUnlabelled(label, duration) ==
  Obj([event |-> Obj([action |-> Str("timer"), category |-> Str("performance"),
                      duration |-> Num(duration)])])

\* the data of the "Timer ended" entry
timerEndData(label, duration) ==
  Obj([event |-> Obj([action |-> Str("timer"), category |-> Str("performance"),
                      duration |-> Num(duration)]),
       labels |-> Obj([timerLabel |-> Str(label)])])

\* a stop function that starts to measure afresh once it has been called
stoppedRestarting(timer, duration, clock) ==
  [timer EXCEPT !.previous = timer.latest, !.latest = duration, !.startTime = clock]

\* the stop function after a call of it: startTime is a const of the closure
stopped(timer, duration, clock) ==
  [timer EXCEPT !.previous = timer.latest, !.latest = duration]

\* p.time(label)
Time(p, label) ==
  /\ Idle
  /\ Len(timers) < MaxTimers
  /\ LET startTime == now
         rec == Emitted(p, "time", "debug", "Timer started: " \o label, Undef, Undef, Undef)
     IN /\ timers' = Append(timers, [logger |-> p, label |-> label, startTime |-> startTime,
                                     previous |-> -1, latest |-> -1])
        /\ last' = [rec EXCEPT !.input = Str(label), !.result = Len(timers) + 1]
  /\ UNCHANGED <<loggers, now, nextUuid, responses>>

\* a call of the stop function t
Stop(t) ==
  /\ Idle
  /\ LET timer == timers[t]
         duration == now - timer.startTime
         data == timerEndData(timer.label, duration)
         rec == Emitted(timer.logger, "stop", "info", "Timer ended: " \o timer.label,
                        Undef, data, data)
     IN /\ timers' = [timers EXCEPT ![t] = stopped(timer, duration, now)]
        /\ last' = [rec EXCEPT !.input = Str(timer.label), !.result = t]
  /\ UNCHANGED <<loggers, now, nextUuid, responses>>

\* the call returns: the caller goes on to its next call
Return ==
  /\ ~Idle
  /\ last' = NoCall
  /\ UNCHANGED <<loggers, now, nextUuid, responses, timers>>

\* time passes
Tick ==
  /\ now < MaxClock
  /\ now' = now + 1
  /\ UNCHANGED <<loggers, nextUuid, last, responses, timers>>

\* some emission call on some logger
Emit ==
  \/ \E p \in 1..Len(loggers), message \in Messages, data \in Datas :
       \/ Trace(p, message, data)
       \/ Debug(p, message, data)
       \/ Info(p, message, data)
       \/ Warn(p, message, data)
  \/ \E p \in 1..Len(loggers), message \in Messages, error \in ErrorInputs, data \in Datas :
       \/ Error(p, message, error, data)
       \/ Fatal(p, message, error, data)

\* a root logger and the loggers derived from it, and the calls on them
Next ==
  \/ \E config \in ConfigInputs : Create("console", config)
  \/ \E config \in PinoConfigInputs : Create("pino", config)
  \/ \E p \in 1..Len(loggers), context \in Overlays : Child(p, context)
  \/ \E p \in 1..Len(loggers), req \in Requests : SetRequestContext(p, req)
  \/ Emit
  \/ Return

Spec == Init /\ [][Next]_vars

\* a console root logger of any configuration, the calls on it, and the clock
NextConfig ==
  \/ \E config \in AllConfigInputs : Create("console", config)
  \/ Emit
  \/ Return
  \/ Tick

SpecConfig == Init /\ [][NextConfig]_vars

\* a root logger of any variant built from a partly given configuration, or
\* the default instance, and the calls on it
NextMerge ==
  \/ \E impl \in Impls, config \in MergeConfigInputs : Create(impl, config)
  \/ \E impl \in Impls, envLOG_LEVEL \in EnvLOG_LEVELInputs : LoadModule(impl, envLOG_LEVEL)
  \/ Emit
  \/ Return

SpecMerge == Init /\ [][NextMerge]_vars

\* the configurations of the root loggers used as request middleware
HttpConfigInputs ==
  {[serviceName |-> Str(ServiceName)],
   [serviceName |-> Str(ServiceName), level |-> Str("warn")]}

\* a root logger used as request middleware: requests arrive, their handlers
\* set the status, the transport signals 'finish', and time passes
NextHttp ==
  \/ \E config \in HttpConfigInputs : Create("console", config)
  \/ \E impl \in Impls \ {"console"} : Create(impl, [serviceName |-> Str(ServiceName)])
  \/ \E p \in {i \in 1..Len(loggers) : loggers[i].parent = 0}, req \in Requests :
       LogRequest(p, req)
  \/ \E r \in 1..Len(responses) : NextReturns(r)
  \/ \E r \in 1..Len(responses), code \in StatusCodes : SetStatus(r, code)
  \/ \E r \in 1..Len(responses) : Finish(r)
  \/ Return
  \/ Tick

SpecHttp == Init /\ [][NextHttp]_vars

\* the configurations of the root loggers that time operations
TimerConfigInputs ==
  {[serviceName |-> Str(ServiceName), level |-> Str("debug")],
   [serviceName |-> Str(ServiceName)]}

\* a root logger and its children, timers started on them and stopped, and
\* the clock
NextTimer ==
  \/ \E config \in TimerConfigInputs : Create("console", config)
  \/ Create("pino", [serviceName |-> Str(ServiceName)])
  \/ \E p \in 1..Len(loggers) : Child(p, OverlayDb)
  \/ \E p \in 1..Len(loggers), label \in Labels : Time(p, label)
  \/ \E t \in 1..Len(timers) : Stop(t)
  \/ Return
  \/ Tick

SpecTimer == Init /\ [][NextTimer]_vars

\* a root logger of any variant and the request loggers derived from it
NextRequest ==
  \/ \E impl \in Impls : Create(impl, [serviceName |-> Str(ServiceName)])
  \/ \E p \in 1..Len(loggers), req \in RequestInputs : SetRequestContext(p, req)
  \/ \E p \in 1..Len(loggers), message \in Messages : Info(p, message, Undef)
  \/ Return

SpecRequest == Init /\ [][NextRequest]_vars

\* a console root logger of level trace in every output mode, a child whose
\* context has a core key, calls whose data has the core keys, and the clock
NextCore ==
  \/ \E flags \in FlagInputs :
       Create("console", Spread([serviceName |-> Str(ServiceName), level |-> Str("trace")], flags))
  \/ \E p \in 1..Len(loggers) : Child(p, OverlayCore)
  \/ \E p \in 1..Len(loggers), message \in Messages, data \in CoreDatas :
       \/ Trace(p, message, data)
       \/ Debug(p, message, data)
       \/ Info(p, message, data)
       \/ Warn(p, message, data)
  \/ \E p \in 1..Len(loggers), message \in Messages, error \in {Undef, RangeErrorBad},
         data \in CoreDatas :
       \/ Error(p, message, error, data)
       \/ Fatal(p, message, error, data)
  \/ Return
  \/ Tick

SpecCore == Init /\ [][NextCore]_vars

\* schema.safeParse(val), with the outcome out
SafeParse(schema, val, out) ==
  /\ Idle
  /\ last' = [NoCall EXCEPT !.op = "safeParse", !.schema = schema, !.input = val,
                            !.parsed = out]
  /\ UNCHANGED <<loggers, now, nextUuid, responses, timers>>

\* the schemas applied to the candidate inputs
NextSchema ==
  \/ Idle /\ \E val \in ObjectIdInputs : SafeParse("ObjectIdSchema", val, ObjectIdSchema(val))
  \/ Idle /\ \E val \in CreateArticleInputs :
               SafeParse("CreateArticleSchema", val, CreateArticleSchema(val))
  \/ Idle /\ \E val \in ArticleInputs : SafeParse("ArticleSchema", val, ArticleSchema(val))
  \/ Idle /\ \E val \in ArticleFiltersInputs :
               SafeParse("ArticleFiltersSchema", val, ArticleFiltersSchema(val))
  \/ Return

SpecSchema == Init /\ [][NextSchema]_vars

(***************************************************************************)
(* Properties.                                                             *)
(***************************************************************************)
\* the call in last is an emission call of a console logger
ConsoleEmission == last.impl = "console" /\ last.op \in Levels

\* the call in last is an emission call of a pino logger
PinoEmission == last.impl = "pino" /\ last.op \in Levels

\* the logger the call in last was made on
Receiver == loggers[last.logger]

\* the entry of the call in last as it reads in the output
Written == Json(last.entry)

\* the root logger a logger descends from
RECURSIVE RootOf(_)
RootOf(i) == IF loggers[i].parent = 0 THEN i ELSE RootOf(loggers[i].parent)

ValidLevel(config) == priorityOf(config.level).t = "number"

Below(level, config) == LOG_LEVEL_PRIORITY[level] < LOG_LEVEL_PRIORITY[config.level.s]

C2_ReceiverUnchanged ==
  [][/\ \A i \in 1..Len(loggers) : i <= Len(loggers') /\ loggers'[i] = loggers[i]
     /\ (last'.impl = "console" /\ last'.op \in Levels /\ last'.passed
         /\ loggers[last'.logger].parent = 0)
        => DOMAIN last'.entry.o \subseteq
             {"@timestamp", "log", "message", "service", "host", "process"}
             \cup (IF last'.op \in {"error", "fatal"} THEN {"event", "error"} ELSE {})
             \cup DOMAIN SpreadOf(last'.data)]_vars

\* a root with a child and a grandchild still has its initial context
C2_Witness ==
  /\ Len(loggers) = 3
  /\ last.op = "child"
  /\ last.logger = 2
  /\ loggers[2].parent = 1
  /\ loggers[1].impl = "console"
  /\ loggers[1].context = initializeContext(loggers[1].config)
  /\ loggers[3].context # loggers[2].context

\* the header mappings an entry carries
HeaderMaps(entry) ==
  {h \in {Prop(Prop(Prop(entry, "http"), "request"), "headers"),
          Prop(Prop(Prop(entry, "http"), "response"), "headers")} : IsObj(h)}

\* C3: in every emitted entry that carries headers, each header whose
\* lowercased name is sensitive has the redaction marker as its value,
\* whichever operation attached the headers.
C3_AlwaysRedacted ==
  (ConsoleEmission /\ last.passed) =>
    \A h \in HeaderMaps(Written) :
      \A key \in DOMAIN h.o :
        toLowerCase(key) \in sensitiveHeaders => h.o[key] = REDACTED

\* the headers of the request given to setRequestContext in last, and the
\* headers the derived logger carries
RequestHeaders == Prop(last.input, "headers").o

DerivedContext ==
  IF last.impl = "console"
  THEN loggers[last.result].context
  ELSE loggers[last.result].context.chain[Len(loggers[last.result].context.chain)].o

DerivedHeaders == Prop(Prop(Get(DerivedContext, "http"), "request"), "headers").o

\* C4: the sanitized mapping has exactly the keys of the request's headers;
\* a sensitive key maps to [REDACTED] whatever its value was; any other key
\* maps to the list joined with ", " or to the stringified value; sanitizing
\* the result again changes nothing.
C4_SanitizeTotalIdempotent ==
  last.op = "setRequestContext" =>
    /\ DOMAIN DerivedHeaders = DOMAIN RequestHeaders
    /\ \A key \in DOMAIN RequestHeaders :
         DerivedHeaders[key] =
           IF toLowerCase(key) \in sensitiveHeaders THEN Str("[REDACTED]")
           ELSE IF RequestHeaders[key].t = "array"
                THEN Str(ArrayJoin(RequestHeaders[key], ", "))
                ELSE Str(JSString(RequestHeaders[key]))
    /\ sanitizeHeaders(DerivedHeaders) = DerivedHeaders

\* a request with a list-valued sensitive header in mixed case was sanitized
C4_Witness ==
  /\ last.op = "setRequestContext"
  /\ last.input = Obj(RequestA)
  /\ DerivedHeaders = [authorization |-> Str("[REDACTED]"),
                       Cookie |-> Str("[REDACTED]"),
                       accept |-> Str("text/html, application/json"),
                       host |-> Str("example.org")]

\* the event sub-record error() or fatal() in last handed on
HandedEvent ==
  IF last.impl = "console" THEN Prop(last.entry, "event") ELSE Prop(last.forwarded, "event")

\* C5: every entry emitted by error or fatal has event.outcome = "failure",
\* and the other keys of data.event are kept with their values.
C5_OutcomeFailure ==
  (last.op \in {"error", "fatal"} /\ (last.impl = "console" => last.passed)) =>
    /\ Prop(HandedEvent, "outcome") = Str("failure")
    /\ DOMAIN HandedEvent.o = DOMAIN SpreadOf(Prop(last.data, "event")) \cup {"outcome"}
    /\ \A k \in DOMAIN SpreadOf(Prop(last.data, "event")) \ {"outcome"} :
         HandedEvent.o[k] = Prop(last.data, "event").o[k]

\* error() was given data whose event says success
C5_Witness ==
  /\ ConsoleEmission
  /\ last.op = "error"
  /\ last.passed
  /\ last.data = DataResponse
  /\ Prop(Written, "event") =
       Obj([action |-> Str("response"), outcome |-> Str("failure"), duration |-> Num(5)])

\* key-by-key merge of two mappings whose values are sub-records: a top-level
\* key present in both with a sub-record on each side gets the union of the
\* nested keys, the second mapping's value winning on a conflict
NestedMerge(c, p) ==
  [k \in DOMAIN c \cup DOMAIN p |->
     IF k \in DOMAIN c /\ k \in DOMAIN p /\ IsObj(c[k]) /\ IsObj(p[k])
     THEN Obj(Spread(c[k].o, p[k].o))
     ELSE IF k \in DOMAIN p THEN p[k] ELSE c[k]]

\* C6: the context of the logger made by child is the receiver's context
\* merged with the overlay key by key inside each shared sub-record.
C6_ChildNestedMerge ==
  (last.op = "child" /\ last.impl = "console") =>
    loggers[last.result].context = NestedMerge(Receiver.context, last.input.o)

\* C7: the entry of trace/debug/info/warn is the context merged with data key
\* by key inside each shared sub-record: data wins on a conflict and every
\* context key data does not set keeps its context value.
C7_EmissionNestedMerge ==
  (ConsoleEmission /\ last.passed /\ last.op \in {"trace", "debug", "info", "warn"}) =>
    \A k \in DOMAIN Receiver.context \cup DOMAIN SpreadOf(last.data) :
      Prop(last.entry, k) = NestedMerge(Receiver.context, SpreadOf(last.data))[k]

\* C8: every entry emitted by a logger or one of its descendants has the
\* service.name its root was created with.
C8_ServiceNameImmutable ==
  (ConsoleEmission /\ last.passed) =>
    Prop(Prop(Written, "service"), "name") = loggers[RootOf(last.logger)].config.serviceName

\* the error sub-record error() or fatal() in last handed on, as written
HandedError ==
  IF last.impl = "console" THEN Prop(Written, "error") ELSE Prop(Json(last.forwarded), "error")

\* C9: an error value that is supplied and is not an Error instance ends up
\* as an error sub-record with message = the stringified value and the
\* generic type, and the call does not fail.
C9_NonErrorNormalized ==
  (/\ last.op \in {"error", "fatal"}
   /\ last.error.t \notin {"undefined", "error"}
   /\ last.impl = "console" => last.passed) =>
    /\ ~last.threw
    /\ IsObj(HandedError)
    /\ Prop(HandedError, "message") = Str(JSString(last.error))
    /\ Prop(HandedError, "type") = Str("Error")

SuppliedError ==
  IF "error" \in DOMAIN SpreadOf(last.data) THEN Json(Prop(last.data, "error"))
  ELSE IF last.impl = "console" THEN Json(Get(Receiver.context, "error"))
  ELSE Undef

DocumentedDefaults ==
  [level |-> Str("info"), enableConsole |-> Bool(TRUE), includeStackTrace |-> Bool(TRUE),
   serviceVersion |-> Str("1.0.0"), environment |-> Str("development")]

\* the call in last constructed a root logger
Constructed == last.op \in {"create", "default"}

\* C11: after construction every optional field that the given configuration
\* leaves out or gives as undefined has its documented default, and every
\* field given a value (an explicit false included) keeps it; so the default
\* instance built while LOG_LEVEL is unset has level info.
C11_UndefinedTakesDefault ==
  Constructed =>
    \A f \in DOMAIN DocumentedDefaults :
      loggers[last.result].config[f] =
        IF Prop(last.input, f) = Undef THEN DocumentedDefaults[f] ELSE Prop(last.input, f)

\* C12: a console logger whose level is a string that is no level lets
\* through exactly the calls a logger of level info lets through (its
\* constructor never rejects).
C12_InvalidLevelAsInfo ==
  (ConsoleEmission /\ Receiver.config.level.t = "string" /\ ~ValidLevel(Receiver.config)) =>
    last.passed = shouldLog(defaultConfig, last.level)

\* the response the call in last concerns
Response == responses[last.res]

\* C13: when logRequest hands control to next(), the request logger has been
\* derived from the receiver, the "Request received" call at info with event
\* {action: request, category: web, type: access} has been made through it,
\* one 'finish' listener holding that logger is registered and no finish
\* signal has been waited for; the listener is there for as long as next()
\* runs, so a finish signalled then (or later) makes the completion call
\* through the request logger.
C13_LogRequestOrder ==
  /\ last.op = "logRequest" =>
       /\ last.result = Len(loggers)
       /\ loggers[last.result].parent = last.logger
       /\ Prop(Prop(Get(DerivedContext, "http"), "request"), "method") = Prop(last.input, "method")
       /\ last.level = "info"
       /\ last.message = "Request received"
       /\ last.data = requestReceivedData
       /\ last.impl = "console" =>
            /\ last.passed <=> shouldLog(Receiver.config, "info")
            /\ last.passed =>
                 /\ Prop(Written, "event") = Prop(requestReceivedData, "event")
                 /\ Prop(Written, "labels") = Json(Get(DerivedContext, "labels"))
       /\ last.impl # "console" => last.forwarded = requestReceivedData
       /\ Len(Response.listeners) = 1
       /\ Head(Response.listeners).logger = last.result
       /\ Response.phase = "next"
       /\ Response.finishes = 0
       /\ Response.written = IF Handed(last) THEN <<"received">> ELSE <<>>
  /\ \A r \in 1..Len(responses) :
       responses[r].phase = "next" => Len(responses[r].listeners) = 1
  /\ last.op = "finish" =>
       /\ last.message = "Request completed"
       /\ last.level \in {"info", "warn"}
       /\ last.logger = Head(Response.listeners).logger
       /\ last.impl = "console" => (last.passed <=> shouldLog(Receiver.config, last.level))

\* the response finished while the next() of its logRequest was still
\* running, and both entries of the invocation were written
C13_Witness ==
  /\ last.op = "finish"
  /\ last.impl = "console"
  /\ last.passed
  /\ Response.phase = "next"
  /\ Response.written = <<"received", "completed">>

\* C14: the call made by the 'finish' listener is at warn with outcome
\* failure if res.statusCode is >= 400 when the signal fires and at info
\* with outcome success otherwise; its event has action response, category
\* web, type access and a duration (>= 0, the time since logRequest was
\* called), and http.response.status_code is that status code.
C14_CompletionEntry ==
  last.op = "finish" =>
    LET status == Response.statusCode
        failed == status.n >= 400
        event == Obj([action |-> Str("response"), category |-> Str("web"),
                      type |-> Str("access"),
                      outcome |-> IF failed THEN Str("failure") ELSE Str("success"),
                      duration |-> Prop(Prop(last.data, "event"), "duration")])
    IN /\ last.level = IF failed THEN "warn" ELSE "info"
       /\ Prop(last.data, "event") = event
       /\ Prop(event, "duration").t = "number"
       /\ Prop(event, "duration").n >= 0
       /\ Prop(event, "duration").n <= now - Head(Response.listeners).startTime
       /\ Prop(Prop(Prop(last.data, "http"), "response"), "status_code") = status
       /\ (last.impl = "console" /\ last.passed) =>
            /\ Prop(Prop(Written, "log"), "level") = Str(last.level)
            /\ Prop(Written, "event") = event
            /\ Prop(Prop(Prop(Written, "http"), "response"), "status_code") = status
       /\ last.impl # "console" => last.forwarded = last.data

\* the status was set to 400 after logRequest registered its listener (the
\* response starts at 200) and the completion entry came out at warn, one
\* millisecond after the request arrived
C14_Witness ==
  /\ last.op = "finish"
  /\ last.impl = "console"
  /\ last.passed
  /\ Response.statusCode = Num(400)
  /\ Prop(Prop(Written, "log"), "level") = Str("warn")
  /\ Prop(Prop(Written, "event"), "outcome") = Str("failure")
  /\ Prop(Prop(Written, "event"), "duration") = Num(1)

\* how many times x occurs in the sequence seq
Count(seq, x) == Cardinality({i \in 1..Len(seq) : seq[i] = x})

\* C15: every invocation of logRequest has at most one completion entry,
\* none while its response has not signalled finish, and its request-received
\* entry comes before its completion entry.
C15_AtMostOneCompletion ==
  \A r \in 1..Len(responses) :
    LET w == responses[r].written
    IN /\ Count(w, "completed") <= 1
       /\ responses[r].finishes = 0 => Count(w, "completed") = 0
       /\ \A i, j \in 1..Len(w) : (w[i] = "received" /\ w[j] = "completed") => i < j

\* the context of the request logger of the response the call in last concerns
OwnContext == loggers[Head(Response.listeners).logger].context

\* C16: every request-received and request-completed entry of the console
\* variant carries the http.request, url, user and labels.requestId of its
\* own request, and a completion entry the status code of its own response.
C16_OwnRequestFields ==
  (last.op \in {"logRequest", "finish"} /\ last.impl = "console" /\ last.passed) =>
    /\ Prop(Prop(Get(OwnContext, "http"), "request"), "method") = Get(Response.req, "method")
    /\ Prop(Prop(Written, "http"), "request") = Json(Prop(Get(OwnContext, "http"), "request"))
    /\ Prop(Written, "url") = Json(Get(OwnContext, "url"))
    /\ Prop(Written, "user") = Json(Get(OwnContext, "user"))
    /\ Prop(Prop(Written, "labels"), "requestId") = Prop(Get(OwnContext, "labels"), "requestId")
    /\ last.op = "finish" =>
         Prop(Prop(Prop(Written, "http"), "response"), "status_code") = Response.statusCode

\* the stop function the call in last created or called
Timer == timers[last.result]

\* C17: time(label) makes, on the logger it is called on, a debug call
\* "Timer started: <label>" and returns a stop function; every call of that
\* function makes one info call "Timer ended: <label>" on that same logger
\* with event.action = timer, event.category = performance, a duration and
\* labels.timerLabel = label, and the entry keeps the fields of the logger's
\* context the data does not set; a logger of level info drops the start
\* entry and writes the end entry.
C17_TimerEntries ==
  /\ last.op = "time" =>
       /\ last.result = Len(timers)
       /\ Timer.logger = last.logger
       /\ Str(Timer.label) = last.input
       /\ last.level = "debug"
       /\ last.message = "Timer started: " \o Timer.label
       /\ last.impl = "console" =>
            /\ last.passed <=> shouldLog(Receiver.config, "debug")
            /\ Receiver.config.level = Str("info") => (~last.passed /\ last.lines = <<>>)
            /\ last.passed =>
                 (Len(last.lines) = 1 /\ Prop(Written, "message") = Str(last.message))
       /\ last.impl # "console" => last.forwarded = Obj(EmptyObj)
  /\ last.op = "stop" =>
       /\ last.logger = Timer.logger
       /\ last.level = "info"
       /\ last.message = "Timer ended: " \o Timer.label
       /\ Prop(Prop(last.data, "event"), "action") = Str("timer")
       /\ Prop(Prop(last.data, "event"), "category") = Str("performance")
       /\ Prop(Prop(last.data, "event"), "duration") = Num(Timer.latest)
       /\ Prop(last.data, "labels") = Obj([timerLabel |-> Str(Timer.label)])
       /\ last.impl = "console" =>
            /\ last.passed <=> shouldLog(Receiver.config, "info")
            /\ Receiver.config.level = Str("info") => last.passed
            /\ last.passed =>
                 /\ Len(last.lines) = 1
                 /\ Prop(Written, "message") = Str(last.message)
                 /\ Prop(Written, "event") = Prop(last.data, "event")
                 /\ Prop(Prop(Written, "labels"), "timerLabel") = Str(Timer.label)
                 /\ \A k \in DOMAIN Receiver.context \ {"event", "labels"} :
                      Prop(Written, k) = Json(Receiver.context[k])
       /\ last.impl # "console" => last.forwarded = last.data

\* a timer started on a child logger of level info was stopped: the end
\* entry is written, by that child
C17_Witness ==
  /\ last.op = "stop"
  /\ last.impl = "console"
  /\ Receiver.config.level = Str("info")
  /\ Receiver.parent # 0
  /\ last.passed
  /\ Prop(Written, "message") = Str("Timer ended: db")
  /\ Prop(Prop(Written, "labels"), "timerLabel") = Str("db")

\* C18: the clock never goes back, time(label) captures the clock value of
\* its call, and every call of the stop function logs the clock value of
\* that call minus the captured value: the duration is >= 0, the captured
\* value is never reset, and the durations of successive calls of one stop
\* function never decrease.
C18_TimerDurations ==
  [][/\ now' >= now
     /\ (Idle /\ last'.op = "time") => timers'[last'.result].startTime = now
     /\ \A t \in 1..Len(timers) :
          /\ timers'[t].startTime = timers[t].startTime
          /\ (Idle /\ last'.op = "stop" /\ last'.result = t) =>
               LET duration == Prop(Prop(last'.data, "event"), "duration")
               IN /\ duration.t = "number"
                  /\ duration.n = now - timers[t].startTime
                  /\ duration.n >= 0
                  /\ duration.n >= timers[t].latest
                  /\ timers'[t].latest = duration.n
                  /\ timers'[t].previous = timers[t].latest]_vars

\* a stop function was called twice, one millisecond apart: it logged 0 and
\* then 1, both measured from the same start
C18_Witness ==
  /\ last.op = "stop"
  /\ Timer.startTime = 0
  /\ Timer.previous = 0
  /\ Timer.latest = 1
  /\ Prop(Prop(last.data, "event"), "duration") = Num(1)

\* C19: the request logger made by the console variant for a request with
\* no user has the user of the receiver's context (none if the receiver has
\* none); for a request with a user it has exactly {id, name, email} of
\* that user.
C19_UserOmittedNotErased ==
  (last.op = "setRequestContext" /\ last.impl = "console") =>
    IF Prop(last.input, "user") = Undef
    THEN Get(DerivedContext, "user") = Get(Receiver.context, "user")
    ELSE Get(DerivedContext, "user") =
           Obj([id |-> Prop(Prop(last.input, "user"), "id"),
                name |-> Prop(Prop(last.input, "user"), "name"),
                email |-> Prop(Prop(last.input, "user"), "email")])

\* the canonical query string of a query mapping: key=value for a string
\* value and for each item of a list value, joined with &
RECURSIVE CanonicalPairs(_)
CanonicalPairs(pairs) ==
  IF Len(pairs) = 0 THEN <<>>
  ELSE (IF Head(pairs)[2].t = "array"
        THEN [i \in 1..Len(Head(pairs)[2].a) |->
                Head(pairs)[1] \o "=" \o Head(pairs)[2].a[i].s]
        ELSE <<Head(pairs)[1] \o "=" \o Head(pairs)[2].s>>)
       \o CanonicalPairs(Tail(pairs))

\* C20: the overlay of setRequestContext has url.original = originalUrl if
\* the request has one and url otherwise, url.path = path, and url.query =
\* the canonical query string of the query mapping, left out if the request
\* has no query mapping or an empty one.
C20_UrlFields ==
  last.op = "setRequestContext" =>
    LET url == Get(DerivedContext, "url")
        query == Prop(last.input, "query")
    IN /\ Prop(url, "original") =
            IF Prop(last.input, "originalUrl") # Undef
            THEN Prop(last.input, "originalUrl") ELSE Prop(last.input, "url")
       /\ Prop(url, "path") = Prop(last.input, "path")
       /\ Prop(url, "query") =
            IF query = Undef \/ query.p = <<>>
            THEN Undef
            ELSE Str(Join(CanonicalPairs(query.p), "&"))
       /\ Prop(url, "query") # Str("")

\* C21: no emission call of the console variant ends by throwing, whatever
\* its message, data and error value and whatever the formatting does.
C21_NeverRaises ==
  ConsoleEmission => ~last.threw

\* C27: every entry the console variant builds has message = the message
\* argument, log = {level: the level of the operation, logger: the service
\* name} and @timestamp = an instant of the call, also when the context or
\* the data has the keys message, log or @timestamp.
C27_CoreFieldsKept ==
  (ConsoleEmission /\ last.passed) =>
    /\ Prop(last.entry, "message") = Str(last.message)
    /\ Prop(last.entry, "log") =
         Obj([level |-> Str(last.level), logger |-> Receiver.config.serviceName])
    /\ \E t \in 0..now : Prop(last.entry, "@timestamp") = Str(toISOString(t))

\* the context arguments c1, ..., cn of the chain of child calls that made
\* logger i from its root
RECURSIVE Chain(_)
Chain(i) ==
  IF loggers[i].parent = 0 THEN <<>> ELSE Append(Chain(loggers[i].parent), loggers[i].given)

\* the chain of the receiver of the call in last, followed by the call's data
Layers ==
  Append(Chain(last.logger), IF IsObj(last.data) THEN last.data.o ELSE EmptyObj)

\* layer c sets the field f of the sub-record k, or sets k to a plain value
SetsField(c, k, f) == k \in DOMAIN c /\ (IsObj(c[k]) => f \in DOMAIN c[k].o)

\* C22: with the chain root.child(c1)...child(cn) and one emission with data
\* d, every field (a plain top-level field, or a field of a sub-record such
\* as labels) set by some ci and not set by a later cj or by d is in the
\* entry with the value ci gave it; and child(c1) then child(c2) makes the
\* same context as one child with c1 overlaid by c2.
C22_ChainRoundTrip ==
  /\ (ConsoleEmission /\ last.passed /\ last.op \in {"trace", "debug", "info", "warn"}) =>
       \A i \in 1..(Len(Layers) - 1) : \A k \in DOMAIN Layers[i] :
         IF IsObj(Layers[i][k])
         THEN \A f \in DOMAIN Layers[i][k].o :
                (\A j \in (i + 1)..Len(Layers) : ~SetsField(Layers[j], k, f)) =>
                  Prop(Prop(last.entry, k), f) = Layers[i][k].o[f]
         ELSE (\A j \in (i + 1)..Len(Layers) : k \notin DOMAIN Layers[j]) =>
                Prop(last.entry, k) = Layers[i][k]
  /\ \A i \in 1..Len(loggers) :
       (loggers[i].impl = "console" /\ loggers[i].parent # 0
          /\ loggers[loggers[i].parent].parent # 0) =>
         LET p == loggers[i].parent
             g == loggers[p].parent
         IN loggers[i].context =
              child(loggers[g], Spread(loggers[p].given, loggers[i].given)).context

\* C23: every logger has the configuration of the root it descends from
\* (minimum level, output mode, includeStackTrace, service metadata), a pino
\* descendant the pino options of its root, and a call on a console logger
\* passes the level filter exactly when it would pass on the root.
C23_ChildConfigIdentical ==
  /\ \A i \in 1..Len(loggers) :
       /\ loggers[i].config = loggers[RootOf(i)].config
       /\ loggers[i].impl = loggers[RootOf(i)].impl
       /\ loggers[i].impl # "console" =>
            loggers[i].context.options = loggers[RootOf(i)].context.options
  /\ ConsoleEmission => (last.passed <=> shouldLog(loggers[RootOf(last.logger)].config, last.level))

\* a call on a logger two child calls below a root of level warn is dropped
C23_Witness ==
  /\ ConsoleEmission
  /\ Receiver.parent # 0
  /\ loggers[Receiver.parent].parent # 0
  /\ loggers[RootOf(last.logger)].config.level = Str("warn")
  /\ last.level = "info"
  /\ ~last.passed

\* C24: the output mode follows enableJSON alone, for every environment: a
\* pino logger is built with the human-readable transport exactly when
\* enableJSON is not set, and a console logger writes a passing entry first
\* as a JSON document when enableJSON is set and as the text line otherwise.
C24_ModeByEnableJSON ==
  /\ \A i \in 1..Len(loggers) :
       loggers[i].impl # "console" =>
         (loggers[i].context.options.pretty <=> ~Truthy(loggers[i].config.enableJSON))
  /\ (ConsoleEmission /\ last.passed /\ ~last.threw /\ Truthy(Receiver.config.enableConsole)) =>
       /\ last.lines # <<>>
       /\ Head(last.lines).fmt = IF Truthy(Receiver.config.enableJSON) THEN "json" ELSE "text"
       /\ \A n \in 1..Len(last.lines) :
            last.lines[n].fmt = "json" => Truthy(Receiver.config.enableJSON)

C28_EnableConsoleObeyed ==
  (last.op \in Levels /\ ~last.threw /\ ValidLevel(Receiver.config)
     /\ ~Below(last.level, Receiver.config)) =>
    /\ Receiver.config.enableConsole = Bool(TRUE) =>
         (last.impl = "console" => last.lines # <<>>)
    /\ Receiver.config.enableConsole = Bool(FALSE) =>
         last.lines = <<>> /\ last.forwarded = Undef

\* the call in last is schema.safeParse(input)
Parsed(schema) == last.op = "safeParse" /\ last.schema = schema

\* C26: ObjectIdSchema accepts a string exactly when it is 24 lowercase
\* hexadecimal digits, and rejects every other string (another length, a
\* character that is no hex digit, an uppercase hex digit) with the one
\* issue 'Invalid MongoDB ObjectId'.
C26_ObjectIdFormat ==
  (Parsed("ObjectIdSchema") /\ IsChars(last.input)) =>
    IF Len(last.input.cs) = 24 /\ \A i \in 1..Len(last.input.cs) : last.input.cs[i] \in HexDigits
    THEN last.parsed.ok /\ last.parsed.value = last.input
    ELSE /\ ~last.parsed.ok
         /\ Len(last.parsed.issues) = 1
         /\ last.parsed.issues[1].message = "Invalid MongoDB ObjectId"

\* C29: every input CreateArticleSchema accepts, completed with a valid _id,
\* createdAt and updatedAt, is accepted by ArticleSchema.
C29_CreateWithinStored ==
  (Parsed("CreateArticleSchema") /\ last.parsed.ok) =>
    ArticleSchema(Completed(last.parsed.value)).ok

\* a list of strings none of which is empty or starts or ends with whitespace
Normalized(tags) ==
  /\ tags.t = "array"
  /\ \A i \in 1..Len(tags.a) :
       /\ IsChars(tags.a[i])
       /\ tags.a[i].cs # <<>>
       /\ Head(tags.a[i].cs) \notin WhiteSpace
       /\ tags.a[i].cs[Len(tags.a[i].cs)] \notin WhiteSpace

\* the tags of a parsed filter query
TagsOf(out) == Prop(out.value, "tags")

\* C30: the tags of every accepted filter query are undefined or a list of
\* strings none of which is empty or has leading or trailing whitespace,
\* whether given as a comma-separated string or as a list, and a
\* comma-separated string parses to what the list of its parts parses to.
C30_TagsNormalized ==
  (Parsed("ArticleFiltersSchema") /\ last.parsed.ok) =>
    /\ TagsOf(last.parsed) = Undef \/ Normalized(TagsOf(last.parsed))
    /\ IsChars(Prop(last.input, "tags")) =>
         LET parts == split(Prop(last.input, "tags").cs, ",")
             listed == Obj([tags |-> Arr([i \in 1..Len(parts) |-> Chars(parts[i])])])
         IN TagsOf(ArticleFiltersSchema(listed)) = TagsOf(last.parsed)
====
